---- MODULE Spec2Model ----
(***************************************************************************)
(* Generation session orchestration of local_llm: the Node binding         *)
(* (LLMNodeBinding), the engine (InferenceEngine) and the model wrapper    *)
(* (LLMModel).  Threads: the JS main thread (every binding method and the  *)
(* delivery of queued callbacks), the binding's worker_thread_ (which only *)
(* calls InferenceEngine::generate_text_stream) and the engine's           *)
(* generation_thread_ (which runs LLMModel::generate_stream under          *)
(* model_mutex_).                                                          *)
(*                                                                         *)
(* stop_generation_ is a plain bool written and read by several threads.   *)
(* Every read in the code sits behind an opaque call, so each read is a    *)
(* real load; its possible outcomes are the interleavings of the steps     *)
(* below.                                                                  *)
(***************************************************************************)
EXTENDS Integers, Sequences, FiniteSets, TLC

\* ---- bounds of the model ----
MaxSessions == 2          \* generateStream calls explored
MaxTokens == 1            \* largest max_tokens argument explored
QueueDepth == 1           \* max_queue_size of the ThreadSafeFunction (2000 in the code)
MaxCtx == 2               \* execution contexts the backend can hold at once
MaxTemp == 2              \* temperature values explored
VocabSize == 3            \* tokens of the vocabulary of a loaded model
MaxLogit == 2             \* logits are 0..MaxLogit
MaxCalls == 3             \* sample_next_token calls explored
DrawSteps == 2            \* the random draws r explored are 0, 1/DrawSteps, .. below 1
MaxInstances == 2         \* engine instances besides the one of the binding
MaxInitCalls == 2         \* initialize calls explored on each of them
MaxPrompt == 3            \* longest tokenized prompt explored
MaxBatch == 2             \* largest config_.batch_size explored
MaxStarts == 2            \* /start-server requests explored

Sessions == 1..MaxSessions
CtxIds == 1..MaxCtx
Temps == 1..MaxTemp
CoreTemps == {1}                \* the one configuration Spec and SpecCore run with
Paths == {"missing", "valid"}   \* model paths: one the backend cannot load, one it can
Instances == 1..MaxInstances

VARIABLES
    model_,            \* InferenceEngine::model_: "null", "unloaded" (LLMModel without llama model), "loaded"
    ctx_,              \* LLMModel::ctx_: 0 (nullptr) or a context id
    liveCtx,           \* contexts created by llama_init_from_model and not yet llama_free'd
    model_mutex_,      \* "free", or held by "main" or by a generation thread ("worker")
    stop_generation_,  \* InferenceEngine::stop_generation_
    mpc,               \* position of the JS main thread
    genResult,         \* what the synchronous generate that just returned did (NoResult once the caller moved on)
    lpc,               \* position of the binding's worker_thread_
    nsess,             \* generateStream calls that started a worker_thread_ so far
    lmax,              \* max_tokens captured by worker_thread_
    generation_thread_,\* session of the engine's generation_thread_ (0: never started)
    gpc,               \* position of each session's generation thread
    max_tokens,        \* max_tokens captured by generation_thread_
    tokens_generated,  \* LLMModel::generate_stream local
    loop_iterations,   \* LLMModel::generate_stream local
    decodeCalls,       \* llama_decode calls made so far by the running generate_stream
    gev,               \* text passed to the callback in flight
    gnext,             \* what generate_stream does after the callback returns
    gchan,             \* ThreadSafeFunction a BlockingCall is waiting on
    callback_tsfn_,    \* LLMNodeBinding::callback_tsfn_ (0: not initialized)
    queue,             \* queued calls of each ThreadSafeFunction
    delivered,         \* calls of JS callbacks made so far, in order
    stopReq,           \* per session: was stop() called during it, "early" (before its first token) or "late"
    inflight,          \* sessions still running when the next generateStream was called
    config_,           \* LLMModel::config_.temperature (0: there is no LLMModel)
    initResult,        \* the last initialize call: the model path it was given and what it returned
    lastSet,           \* the last setter call: the value passed, and the sessions in flight if it wrote a new value
    sampler,           \* sample_next_token and the token loop around it (<<>> where the
                       \* calls are not followed): vocab_size (llama_vocab_n_tokens),
                       \* logits (the vector of the last call), temperature and top_k
                       \* (config_), next_token (what the last call returned), fed (did
                       \* the loop pass it to llama_decode), recent_tokens_, returned
                       \* (every token id returned since the LLMModel was made),
                       \* generating (a generation call is in its token loop), in_gen
                       \* (calls made by that generation call)
    backend,           \* the process: initialized (the static backend_initialized), inits
                       \* and frees (llama_backend_init and llama_backend_free calls made)
    instances,         \* the other engine instances of the process (<<>>: there is none):
                       \* loads (their llama_model_load_from_file calls), ipc (position of
                       \* the thread of each), icalls (its initialize calls)
    ingest,            \* one generation call of LLMModel followed statement by statement
                       \* (<<>> where it is not): batch_size (config_), input_tokens, i
                       \* (the size_t index of the ingest loop), fed (the tokens passed to
                       \* llama_decode so far), decodes (llama_decode calls), max_tokens,
                       \* iter (iterations of the token loop), tokens_generated, eos (the
                       \* sampler returned the end-of-sequence token), eos_hit (the field
                       \* of the [DONE] metrics), streamed (the token texts generate_stream
                       \* passed to its callback), output_tokens and text (the tokens
                       \* generate_internal collected and the text it returns), pc, result
                       \* (how the call ended)
    helper             \* the server helper process (server-helper.js): serverProcess (0 for
                       \* null, else the child it refers to), serverStatus, child (each
                       \* spawned LLM server process and the events it has pending), req
                       \* (each /start-server request's position in startServer)

engineVars == <<model_, ctx_, liveCtx, model_mutex_>>
mainVars == <<mpc, genResult>>
launchVars == <<lpc, nsess, lmax>>
localVars == <<max_tokens, tokens_generated, loop_iterations, decodeCalls, gev, gnext, gchan>>
genVars == <<generation_thread_, gpc, localVars>>
chanVars == <<callback_tsfn_, queue, delivered>>
histVars == <<stopReq, inflight>>
cfgVars == <<config_, initResult, lastSet>>
processVars == <<sampler, backend, instances, ingest, helper>>

vars == <<engineVars, stop_generation_, mainVars, launchVars, genVars, chanVars, histVars, cfgVars,
          processVars>>

NoEvent == [sid |-> 0, kind |-> "none"]
NoResult == [text |-> "none", decodes |-> 0]
NoInit == [path |-> "none", ret |-> FALSE]
NoSet == [temp |-> 0, inflight |-> {}]

\* no sample_next_token call has been made
SamplerIdle ==
    [vocab_size |-> 0, logits |-> <<>>, temperature |-> 0, top_k |-> 0, next_token |-> 0,
     fed |-> FALSE, recent_tokens_ |-> <<>>, returned |-> <<>>, generating |-> FALSE,
     in_gen |-> 0]

\* llama_backend_init has not been called
BackendFresh == [initialized |-> FALSE, inits |-> 0, frees |-> 0]

\* the other instances have been constructed
InstancesIdle ==
    [loads |-> 0, ipc |-> [i \in Instances |-> "idle"], icalls |-> [i \in Instances |-> 0]]

\* the binding object has been constructed; the backend is untouched
Constructed ==
    /\ model_ = "null"
    /\ ctx_ = 0
    /\ liveCtx = {}
    /\ model_mutex_ = "free"
    /\ stop_generation_ = FALSE
    /\ mpc = "idle"
    /\ genResult = NoResult
    /\ lpc = "none"
    /\ nsess = 0
    /\ lmax = 0
    /\ generation_thread_ = 0
    /\ gpc = [s \in Sessions |-> "none"]
    /\ max_tokens = 0
    /\ tokens_generated = 0
    /\ loop_iterations = 0
    /\ decodeCalls = 0
    /\ gev = NoEvent
    /\ gnext = "return"
    /\ gchan = 0
    /\ callback_tsfn_ = 0
    /\ queue = [c \in Sessions |-> <<>>]
    /\ delivered = <<>>
    /\ stopReq = [s \in Sessions |-> "none"]
    /\ inflight = [s \in Sessions |-> FALSE]
    /\ config_ = 0
    /\ initResult = NoInit
    /\ lastSet = NoSet
    /\ sampler = <<>>
    /\ ingest = <<>>
    /\ backend = BackendFresh

\* the process has no other engine instance
Init == Constructed /\ instances = <<>> /\ helper = <<>>

\* ---- backend: execution contexts ----

\* if (ctx_) { llama_free(ctx_); ctx_ = nullptr; }   (live set after the free)
FreeCtx_Skip(live, c) == live

FreeCtx(live, c) == live \ {c}

\* llama_init_from_model: the context the backend hands out (0: creation failed)
NewCtx(live) ==
    IF CtxIds \ live = {} THEN 0
    ELSE CHOOSE c \in CtxIds \ live : \A d \in CtxIds \ live : c <= d

\* LLMModel::is_loaded through InferenceEngine: model_ && model_->is_loaded()
IsLoaded_HasModel == model_ # "null"

IsLoaded == model_ = "loaded"

\* ---- JS main thread: mutex-guarded engine calls ----

\* A binding method that takes model_mutex_ is entered; the main thread is
\* inside it (and delivers no callback) until the lock is granted.
MainCall ==
    /\ mpc = "idle"
    /\ \E op \in {"initialize", "generate", "is_ready"} : mpc' = op
    /\ genResult' = NoResult
    /\ UNCHANGED <<engineVars, stop_generation_, launchVars, genVars, chanVars, histVars, cfgVars, processVars>>

\* std::lock_guard<std::mutex> lock(model_mutex_) at the top of the engine
\* method `op` returns
LockGranted_GenerateUnlocked(op) == op = "generate" \/ model_mutex_ = "free"

LockGranted(op) == model_mutex_ = "free"

\* llama_model_load_from_file: is the handle it returns non-null
LoadFromFile(path) == path = "valid"

\* InferenceEngine::model_ after initialize: the new LLMModel replaces the
\* previous one before the load is tried, so a failed load leaves an LLMModel
\* without a llama model
ModelAfterInitialize_KeepOld(handle) == IF handle THEN "loaded" ELSE model_

ModelAfterInitialize_Once(handle) ==
    IF model_ # "null" THEN model_ ELSE IF handle THEN "loaded" ELSE "unloaded"

ModelAfterInitialize(handle) == IF handle THEN "loaded" ELSE "unloaded"

\* LLMModel::initialize lines 46-50: if (!backend_initialized)
\* { llama_backend_init(); backend_initialized = true; } run by one thread
\* with no other thread in between
BackendInitOnce ==
    backend' = [backend EXCEPT !.inits = IF backend.initialized THEN @ ELSE @ + 1,
                               !.initialized = TRUE]

\* InferenceEngine::initialize: model_ = make_unique<LLMModel>() destroys the
\* previous LLMModel (~LLMModel frees ctx_ and the llama model), then
\* LLMModel::initialize stores the config and loads; the load result is returned.
\* temps: the temperatures of the configs passed.
Initialize(temps) ==
    /\ mpc = "initialize"
    /\ LockGranted("initialize")
    /\ \E path \in Paths, temp \in temps :
          LET handle == LoadFromFile(path)
          IN  /\ model_' = ModelAfterInitialize(handle)
              /\ config_' = temp
              /\ initResult' = [path |-> path, ret |-> handle]
    /\ liveCtx' = FreeCtx(liveCtx, ctx_)
    /\ ctx_' = 0
    /\ lastSet' = NoSet
    /\ BackendInitOnce
    /\ mpc' = "idle"
    /\ UNCHANGED <<model_mutex_, genResult, stop_generation_, launchVars, genVars,
                   chanVars, histVars, sampler, instances, ingest, helper>>

\* generateStream was called for session s and its generation has not ended
InFlight(s) == s <= nsess /\ gpc[s] # "done"

\* `if (model_)` of the setters
HasModel_Always == TRUE

HasModel == model_ # "null"

\* a setter of the binding is entered (setTemperature stands for all of them:
\* each locks, tests model_ and stores one field of config_)
SetterCall ==
    /\ mpc = "idle"
    /\ mpc' = "set_temperature"
    /\ genResult' = NoResult
    /\ UNCHANGED <<engineVars, stop_generation_, launchVars, genVars, chanVars, histVars,
                   cfgVars, processVars>>

\* InferenceEngine::set_temperature -> LLMModel::set_temperature
SetTemperature ==
    /\ mpc = "set_temperature"
    /\ LockGranted("set_temperature")
    /\ \E temp \in Temps :
          /\ config_' = IF HasModel THEN temp ELSE config_
          /\ lastSet' = [temp |-> temp,
                         inflight |-> IF HasModel /\ temp # config_
                                      THEN {s \in Sessions : InFlight(s)}
                                      ELSE lastSet.inflight]
    /\ mpc' = "idle"
    /\ UNCHANGED <<engineVars, genResult, stop_generation_, launchVars, genVars,
                   chanVars, histVars, initResult, processVars>>

\* is_ready and get_model_info: lock, read, unlock
IsReady ==
    /\ mpc = "is_ready"
    /\ LockGranted("is_ready")
    /\ mpc' = "idle"
    /\ UNCHANGED <<engineVars, genResult, stop_generation_, launchVars, genVars,
                   chanVars, histVars, cfgVars, processVars>>

\* InferenceEngine::generate_text up to the context creation of
\* LLMModel::generate_internal
GenerateBegin ==
    /\ mpc = "generate"
    /\ LockGranted("generate")
    /\ IF ~IsLoaded
       THEN /\ genResult' = [text |-> "err_notloaded", decodes |-> 0]
            /\ mpc' = "idle"
            /\ UNCHANGED engineVars
       ELSE \E created \in BOOLEAN :
              LET live1 == FreeCtx(liveCtx, ctx_)
                  c == IF created THEN NewCtx(live1) ELSE 0
              IN  /\ ctx_' = c
                  /\ UNCHANGED model_
                  /\ IF c = 0
                     THEN /\ liveCtx' = live1
                          /\ genResult' = [text |-> "err_ctx", decodes |-> 0]
                          /\ mpc' = "idle"
                          /\ UNCHANGED model_mutex_
                     ELSE /\ liveCtx' = live1 \cup {c}
                          /\ model_mutex_' = "main"
                          /\ mpc' = "gen_run"
                          /\ UNCHANGED genResult
    /\ UNCHANGED <<stop_generation_, launchVars, genVars, chanVars, histVars, cfgVars, processVars>>

\* The rest of LLMModel::generate_internal: tokenize, prompt decode, token
\* loop, return.  m is the max_tokens argument, n the number of tokens
\* sampled before the call ends.
GenerateRun ==
    /\ mpc = "gen_run"
    /\ \E m \in 0..MaxTokens, n \in 0..MaxTokens,
          o \in {"err_tok", "err_prompt", "err_logits", "err_decode", "err_exc", "ok"} :
          /\ n <= m
          /\ o = "err_logits" => n < m
          /\ o = "err_decode" => n >= 1
          /\ o \in {"err_tok", "err_prompt"} => n = 0
          /\ genResult' = [text |-> o, decodes |-> IF o = "err_tok" THEN 0 ELSE 1 + n]
          \* line 266: "Tokenization failed" is returned without llama_free
          /\ IF o = "err_tok"
             THEN UNCHANGED <<ctx_, liveCtx>>
             ELSE /\ liveCtx' = FreeCtx(liveCtx, ctx_)
                  /\ ctx_' = 0
    /\ model_mutex_' = "free"
    /\ mpc' = "idle"
    /\ UNCHANGED <<model_, stop_generation_, launchVars, genVars, chanVars, histVars, cfgVars, processVars>>

\* what the JS callback can tell of a text: a token, the [DONE] message with
\* the metrics, or an error message
Class(kind) == IF kind \in {"token", "done"} THEN kind ELSE "error"

\* napi_call_threadsafe_function: the call goes to the back of the queue
Push_Front(q, call) == <<call>> \o q

Push(q, call) == Append(q, call)

\* what tells the text of a token from the other token texts of its
\* generation, for the observers: its position, tokens_generated after the
\* increment of line 151 (0 for the [DONE] message and the error messages)
Piece(obs) == IF obs /\ gev.kind = "token" THEN tokens_generated ELSE 0

\* the call queued on a ThreadSafeFunction for the text in flight: the lambda
\* captures the text by value
QueuedCall(ev, piece) == [sid |-> ev.sid, kind |-> Class(ev.kind), seq |-> piece]

\* ---- JS main thread: stop and generateStream ----

\* session s has handed no token to its callback yet
BeforeFirstToken(s) ==
    IF gpc[s] \in {"none", "lock"} THEN TRUE ELSE tokens_generated = 0

\* LLMNodeBinding::StopGeneration -> InferenceEngine::stop_generation
StopGeneration_Locks(obs) ==
    /\ mpc = "idle"
    /\ model_mutex_ = "free"
    /\ stop_generation_' = TRUE
    /\ genResult' = NoResult
    /\ stopReq' = IF obs /\ nsess >= 1 /\ gpc[nsess] # "done" /\ stopReq[nsess] = "none"
                  THEN [stopReq EXCEPT ![nsess] =
                           IF BeforeFirstToken(nsess) THEN "early" ELSE "late"]
                  ELSE stopReq
    /\ UNCHANGED <<engineVars, mpc, launchVars, genVars, chanVars, inflight, cfgVars, processVars>>

StopGeneration(obs) ==
    /\ mpc = "idle"
    /\ stop_generation_' = TRUE
    /\ genResult' = NoResult
    /\ stopReq' = IF obs /\ nsess >= 1 /\ gpc[nsess] # "done" /\ stopReq[nsess] = "none"
                  THEN [stopReq EXCEPT ![nsess] =
                           IF BeforeFirstToken(nsess) THEN "early" ELSE "late"]
                  ELSE stopReq
    /\ UNCHANGED <<engineVars, mpc, launchVars, genVars, chanVars, inflight, cfgVars, processVars>>

\* worker_thread_.join() returns
WorkerThreadJoined_NoWait == TRUE

WorkerThreadJoined == lpc \in {"none", "done"}

\* LLMNodeBinding::GenerateStream, lines 407-411: stop_generation(), then join
GenerateStreamBegin(obs) ==
    /\ mpc = "idle"
    /\ nsess < MaxSessions
    /\ stop_generation_' = TRUE
    /\ mpc' = "gs_join"
    /\ genResult' = NoResult
    /\ inflight' = IF obs /\ nsess >= 1 /\ gpc[nsess] # "done"
                   THEN [inflight EXCEPT ![nsess] = TRUE]
                   ELSE inflight
    /\ UNCHANGED <<engineVars, launchVars, genVars, chanVars, stopReq, cfgVars, processVars>>

\* LLMNodeBinding::GenerateStream, lines 413-462: release the previous
\* ThreadSafeFunction, create the new one, start worker_thread_
GenerateStreamFinish(toks) ==
    /\ mpc = "gs_join"
    /\ WorkerThreadJoined
    /\ \E m \in toks : lmax' = m
    /\ callback_tsfn_' = nsess + 1
    /\ nsess' = nsess + 1
    /\ lpc' = "stop"
    /\ mpc' = "idle"
    /\ UNCHANGED <<engineVars, genResult, stop_generation_, genVars, queue, delivered,
                   histVars, cfgVars, processVars>>

\* The event loop runs one queued call of a ThreadSafeFunction: the JS
\* callback given to the generateStream call that created it is called.
\* A released ThreadSafeFunction still runs the calls queued before it closes,
\* and the loop serves the functions in the order they were created.
Deliver(obs) ==
    /\ mpc = "idle"
    /\ \E c \in Sessions :
          /\ queue[c] # <<>>
          /\ \A d \in Sessions : d < c => queue[d] = <<>>
          /\ delivered' = IF obs
                          THEN Append(delivered,
                                   [sid |-> Head(queue[c]).sid,
                                    kind |-> Head(queue[c]).kind,
                                    seq |-> Head(queue[c]).seq, chan |-> c])
                          ELSE delivered
          /\ queue' = [queue EXCEPT ![c] = Tail(queue[c])]
    /\ genResult' = NoResult
    /\ UNCHANGED <<engineVars, stop_generation_, mpc, launchVars, genVars,
                   callback_tsfn_, histVars, cfgVars, processVars>>

\* ---- binding worker_thread_: InferenceEngine::generate_text_stream ----

\* generate_text_stream line 59: stop_generation()
LaunchStop ==
    /\ lpc = "stop"
    /\ stop_generation_' = TRUE
    /\ lpc' = "join"
    /\ UNCHANGED <<engineVars, mainVars, nsess, lmax, genVars, chanVars, histVars, cfgVars, processVars>>

\* if (generation_thread_.joinable()) generation_thread_.join() returns
GenerationThreadJoined_NoWait == TRUE

GenerationThreadJoined ==
    IF generation_thread_ = 0 THEN TRUE ELSE gpc[generation_thread_] = "done"

\* generate_text_stream line 64: the value stop_generation_ has when the new
\* generation_thread_ is started
FlagAtStart_Kept == stop_generation_

FlagAtStart == FALSE

\* generate_text_stream lines 60-66: join, stop_generation_ = false, start
\* generation_thread_ (its lambda captures max_tokens and first takes the lock)
LaunchSpawn ==
    /\ lpc = "join"
    /\ GenerationThreadJoined
    /\ stop_generation_' = FlagAtStart
    /\ generation_thread_' = nsess
    /\ gpc' = [gpc EXCEPT ![nsess] = "lock"]
    /\ max_tokens' = lmax
    /\ lmax' = 0
    /\ lpc' = "done"
    /\ UNCHANGED <<engineVars, mainVars, nsess, tokens_generated, loop_iterations,
                   decodeCalls, gev, gnext, gchan, chanVars, histVars, cfgVars, processVars>>

\* ---- engine generation_thread_: LLMModel::generate_stream ----

\* position of the thread once the callback in flight has returned
AfterCallback == IF gnext = "decode" THEN "decode" ELSE "exit"

\* generate_stream calls callback(text) and will then do `next`
Emit(s, kind, next) ==
    /\ gev' = [sid |-> s, kind |-> kind]
    /\ gnext' = next
    /\ gpc' = [gpc EXCEPT ![s] = "cb_check"]

\* The thread gets model_mutex_; model-not-loaded check of the engine lambda;
\* generate_stream lines 89-106: free any existing context, create one.
GenStart(s) ==
    /\ gpc[s] = "lock"
    /\ LockGranted("generate_text_stream")
    /\ model_mutex_' = "worker"
    /\ UNCHANGED <<model_, max_tokens, tokens_generated, loop_iterations, decodeCalls,
                   gchan>>
    /\ IF ~IsLoaded
       THEN \* callback("Error: Model not loaded") is the binding's callback itself
            /\ gev' = [sid |-> s, kind |-> "err_notloaded"]
            /\ gnext' = "return"
            /\ gpc' = [gpc EXCEPT ![s] = "cb_enqueue"]
            /\ UNCHANGED <<ctx_, liveCtx>>
       ELSE \E created \in BOOLEAN :
              LET live1 == FreeCtx(liveCtx, ctx_)
                  c == IF created THEN NewCtx(live1) ELSE 0
              IN  /\ ctx_' = c
                  /\ IF c = 0
                     THEN /\ liveCtx' = live1
                          /\ Emit(s, "err_ctx", "return")
                     ELSE /\ liveCtx' = live1 \cup {c}
                          /\ gpc' = [gpc EXCEPT ![s] = "ingest"]
                          /\ UNCHANGED <<gev, gnext>>
    /\ UNCHANGED <<stop_generation_, mainVars, launchVars, generation_thread_, chanVars,
                   histVars, cfgVars, processVars>>

\* generate_stream lines 107-129: tokenize, BOS, prompt decode
GenIngest(s) ==
    /\ gpc[s] = "ingest"
    /\ \E o \in {"err_tok", "err_prompt", "err_exc", "ok"} :
          /\ decodeCalls' = IF o = "err_tok" THEN 0 ELSE 1
          /\ IF o = "ok"
             THEN /\ gpc' = [gpc EXCEPT ![s] = "loop"]
                  /\ UNCHANGED <<gev, gnext>>
             ELSE Emit(s, o, "free")
    /\ UNCHANGED <<engineVars, stop_generation_, mainVars, launchVars, generation_thread_,
                   max_tokens, tokens_generated, loop_iterations, gchan, chanVars,
                   histVars, cfgVars, processVars>>

\* for (int i = 0; i < max_tokens; ++i): the test fails (i and loop_iterations
\* count the same iterations)
LoopEnds_OneMore == loop_iterations > max_tokens

LoopEnds == loop_iterations >= max_tokens

\* lines 147-150: `break` on the end-of-sequence token leaves the loop for
\* the [DONE] message and the llama_free after it; the statements of the
\* iteration that follow (count, callback, llama_decode) are skipped
AfterEos_Decode == "decode"

AfterEos == "free"

\* generate_stream lines 134-163 and 176-222: the loop test and one iteration
\* up to the token callback, or the [DONE] message after the loop
GenIter(s) ==
    /\ gpc[s] = "loop"
    /\ IF LoopEnds
       THEN /\ Emit(s, "done", "free")
            /\ UNCHANGED <<tokens_generated, loop_iterations>>
       ELSE /\ loop_iterations' = loop_iterations + 1
            /\ \E o \in {"err_logits", "eos", "token", "nopiece", "err_exc"} :
                  CASE o = "eos" ->
                         /\ Emit(s, "done", AfterEos)
                         /\ UNCHANGED tokens_generated
                    [] o = "token" ->
                         /\ tokens_generated' = tokens_generated + 1
                         /\ Emit(s, "token", "decode")
                    [] o = "nopiece" ->
                         /\ tokens_generated' = tokens_generated + 1
                         /\ gpc' = [gpc EXCEPT ![s] = "decode"]
                         /\ UNCHANGED <<gev, gnext>>
                    [] OTHER ->
                         /\ Emit(s, o, "free")
                         /\ UNCHANGED tokens_generated
    /\ UNCHANGED <<engineVars, stop_generation_, mainVars, launchVars, generation_thread_,
                   max_tokens, decodeCalls, gchan, chanVars, histVars, cfgVars, processVars>>

\* the engine's wrapper around the callback, lines 74-79
GenCallback(s) ==
    /\ gpc[s] = "cb_check"
    /\ gpc' = [gpc EXCEPT ![s] = IF stop_generation_ THEN AfterCallback ELSE "cb_enqueue"]
    /\ UNCHANGED <<engineVars, stop_generation_, mainVars, launchVars, generation_thread_,
                   localVars, chanVars, histVars, cfgVars, processVars>>

\* napi_call_threadsafe_function accepts a call while the queue holds fewer
\* than max_queue_size calls
HasRoom_Unbounded(q, depth) == TRUE

HasRoom(q, depth) == Len(q) < depth

\* the binding's callback, lines 432-451: NonBlockingCall on callback_tsfn_,
\* and on a full queue BlockingCall.  The main thread replaces callback_tsfn_
\* without synchronization: the call goes to the function now in
\* callback_tsfn_ or to the one of the thread's own session, read just before
\* it was replaced or released; a released function may refuse the call (both
\* calls fail and the text is dropped).
GenEnqueue(s, depth, obs) ==
    /\ gpc[s] = "cb_enqueue"
    /\ \E c \in {s, callback_tsfn_} \ {0} :
          \/ /\ c # callback_tsfn_
             /\ gpc' = [gpc EXCEPT ![s] = AfterCallback]
             /\ UNCHANGED <<queue, gchan>>
          \/ /\ HasRoom(queue[c], depth)
             /\ queue' = [queue EXCEPT ![c] = Push(@, QueuedCall(gev, Piece(obs)))]
             /\ gpc' = [gpc EXCEPT ![s] = AfterCallback]
             /\ UNCHANGED gchan
          \/ /\ ~HasRoom(queue[c], depth)
             /\ gchan' = c
             /\ gpc' = [gpc EXCEPT ![s] = "cb_blocked"]
             /\ UNCHANGED queue
    /\ UNCHANGED <<engineVars, stop_generation_, mainVars, launchVars, generation_thread_,
                   max_tokens, tokens_generated, loop_iterations, decodeCalls, gev, gnext,
                   callback_tsfn_, delivered, histVars, cfgVars, processVars>>

\* BlockingCall returns once the queue it waits on has room, or, on a released
\* function, is closing
GenBlockingCall(s, depth, obs) ==
    /\ gpc[s] = "cb_blocked"
    /\ HasRoom(queue[gchan], depth)
    /\ \/ queue' = [queue EXCEPT ![gchan] = Push(@, QueuedCall(gev, Piece(obs)))]
       \/ gchan # callback_tsfn_ /\ UNCHANGED queue
    /\ gpc' = [gpc EXCEPT ![s] = AfterCallback]
    /\ UNCHANGED <<engineVars, stop_generation_, mainVars, launchVars, generation_thread_,
                   localVars, callback_tsfn_, delivered, histVars, cfgVars, processVars>>

\* generate_stream lines 164-174: llama_decode of the sampled token
GenDecode(s) ==
    /\ gpc[s] = "decode"
    /\ decodeCalls' = decodeCalls + 1
    /\ \E ret \in {0, 1} :
          IF ret = 0
          THEN /\ gpc' = [gpc EXCEPT ![s] = "loop"]
               /\ UNCHANGED <<gev, gnext>>
          ELSE Emit(s, "err_decode", "free")
    /\ UNCHANGED <<engineVars, stop_generation_, mainVars, launchVars, generation_thread_,
                   max_tokens, tokens_generated, loop_iterations, gchan, chanVars,
                   histVars, cfgVars, processVars>>

\* the statements after the last callback: llama_free where the path has it,
\* return (the locals go away), unlock, thread ends
GenExit_KeepsPointer(s) ==
    /\ gpc[s] = "exit"
    /\ IF gnext = "free"
       THEN /\ liveCtx' = FreeCtx(liveCtx, ctx_)
            /\ UNCHANGED ctx_
       ELSE UNCHANGED <<ctx_, liveCtx>>
    /\ model_mutex_' = "free"
    /\ gpc' = [gpc EXCEPT ![s] = "done"]
    /\ max_tokens' = 0
    /\ tokens_generated' = 0
    /\ loop_iterations' = 0
    /\ decodeCalls' = 0
    /\ gev' = NoEvent
    /\ gnext' = "return"
    /\ gchan' = 0
    /\ UNCHANGED <<model_, stop_generation_, mainVars, launchVars, generation_thread_,
                   chanVars, histVars, cfgVars, processVars>>

GenExit(s) ==
    /\ gpc[s] = "exit"
    /\ IF gnext = "free"
       THEN /\ liveCtx' = FreeCtx(liveCtx, ctx_)
            /\ ctx_' = 0
       ELSE UNCHANGED <<ctx_, liveCtx>>
    /\ model_mutex_' = "free"
    /\ gpc' = [gpc EXCEPT ![s] = "done"]
    /\ max_tokens' = 0
    /\ tokens_generated' = 0
    /\ loop_iterations' = 0
    /\ decodeCalls' = 0
    /\ gev' = NoEvent
    /\ gnext' = "return"
    /\ gchan' = 0
    /\ UNCHANGED <<model_, stop_generation_, mainVars, launchVars, generation_thread_,
                   chanVars, histVars, cfgVars, processVars>>

\* ---- JS main thread: the binding object is destroyed ----

\* ~LLMNodeBinding line 302: engine_->stop_generation(); then worker_thread_
\* is joined
DestroyBegin ==
    /\ mpc = "idle"
    /\ stop_generation_' = TRUE
    /\ mpc' = "dtor_binding"
    /\ genResult' = NoResult
    /\ UNCHANGED <<engineVars, launchVars, genVars, chanVars, histVars, cfgVars, processVars>>

\* ~LLMNodeBinding lines 303-309: the join returns, callback_tsfn_ is
\* released; engine_ is then destroyed: ~InferenceEngine line 24,
\* stop_generation(), then generation_thread_ is joined
DestroyRelease ==
    /\ mpc = "dtor_binding"
    /\ WorkerThreadJoined
    /\ callback_tsfn_' = 0
    /\ stop_generation_' = TRUE
    /\ mpc' = "dtor_engine"
    /\ UNCHANGED <<engineVars, genResult, launchVars, genVars, queue, delivered,
                   histVars, cfgVars, processVars>>

\* ~InferenceEngine lines 25-28: the join returns; the members are destroyed,
\* model_ among them: ~LLMModel frees ctx_ and the llama model
DestroyEngine ==
    /\ mpc = "dtor_engine"
    /\ GenerationThreadJoined
    /\ liveCtx' = FreeCtx(liveCtx, ctx_)
    /\ ctx_' = 0
    /\ model_' = "null"
    /\ config_' = 0
    /\ mpc' = "destroyed"
    /\ UNCHANGED <<model_mutex_, genResult, stop_generation_, launchVars, genVars,
                   chanVars, histVars, initResult, lastSet, processVars>>

\* The steps of the threads.  obs: the observers (delivered, stopReq, inflight)
\* record; no action reads them.  temps: the temperatures initialize is given;
\* toks: the max_tokens arguments of generateStream; depth: max_queue_size.
Steps(obs, temps, toks, depth) ==
    \/ MainCall
    \/ Initialize(temps)
    \/ IsReady
    \/ GenerateBegin
    \/ GenerateRun
    \/ StopGeneration(obs)
    \/ GenerateStreamBegin(obs)
    \/ GenerateStreamFinish(toks)
    \/ Deliver(obs)
    \/ LaunchStop
    \/ LaunchSpawn
    \/ \E s \in Sessions : GenStart(s)
    \/ \E s \in Sessions : GenIngest(s)
    \/ \E s \in Sessions : GenIter(s)
    \/ \E s \in Sessions : GenCallback(s)
    \/ \E s \in Sessions : GenEnqueue(s, depth, obs)
    \/ \E s \in Sessions : GenBlockingCall(s, depth, obs)
    \/ \E s \in Sessions : GenDecode(s)
    \/ \E s \in Sessions : GenExit(s)

Next == Steps(TRUE, CoreTemps, 0..MaxTokens, QueueDepth)

Spec == Init /\ [][Next]_vars

\* the same program with the observers off
NextCore == Steps(FALSE, CoreTemps, 0..MaxTokens, QueueDepth)

SpecCore == Init /\ [][NextCore]_vars

\* the sessions and the destruction of the binding object
NextTeardown ==
    \/ Steps(FALSE, CoreTemps, 0..MaxTokens, QueueDepth)
    \/ DestroyBegin
    \/ DestroyRelease
    \/ DestroyEngine

SpecTeardown == Init /\ [][NextTeardown]_vars

\* the whole instance: the sessions, the setters, every configuration and the
\* destruction of the binding object
NextApi ==
    \/ Steps(FALSE, Temps, 0..MaxTokens, QueueDepth)
    \/ SetterCall
    \/ SetTemperature
    \/ DestroyBegin
    \/ DestroyRelease
    \/ DestroyEngine

SpecApi == Init /\ [][NextApi]_vars

TypeOK ==
    /\ model_ \in {"null", "unloaded", "loaded"}
    /\ ctx_ \in CtxIds \cup {0}
    /\ liveCtx \subseteq CtxIds
    /\ model_mutex_ \in {"free", "main", "worker"}
    /\ stop_generation_ \in BOOLEAN
    /\ mpc \in {"idle", "initialize", "generate", "is_ready", "gen_run", "gs_join",
               "set_temperature", "dtor_binding", "dtor_engine", "destroyed"}
    /\ lpc \in {"none", "stop", "join", "done"}
    /\ nsess \in 0..MaxSessions
    /\ \A s \in Sessions : Len(queue[s]) <= QueueDepth
    /\ config_ \in Temps \cup {0}
    /\ initResult \in [path : Paths \cup {"none"}, ret : BOOLEAN]
    /\ lastSet \in [temp : Temps \cup {0}, inflight : SUBSET Sessions]

\* ---- what a consumer has received ----

Indices(kinds, s) ==
    {i \in 1..Len(delivered) : delivered[i].sid = s /\ delivered[i].kind \in kinds}

Tokens(s) == Cardinality(Indices({"token"}, s))
Terminals(s) == Cardinality(Indices({"done", "error"}, s))

\* the worker of s has ended and no call of s is still queued
SessionOver(s) ==
    /\ gpc[s] = "done"
    /\ \A c \in Sessions : \A i \in 1..Len(queue[c]) : queue[c][i].sid # s

Running(s) == gpc[s] \notin {"none", "done"}

\* ---- claims ----

\* C1: single-flight.  At most one generation thread exists (started and not
\* ended) at any time: generate_text_stream starts the thread of a session only
\* after the thread of the previous one has ended.
C1_SingleFlight == Cardinality({s \in Sessions : Running(s)}) <= 1

\* the second generate_text_stream waits in join() while the worker of the
\* first session runs the token loop
C1_Witness == nsess = 2 /\ lpc = "join" /\ gpc[1] = "loop" /\ gpc[2] = "none"

\* C2: a session superseded while in flight has its terminal event delivered
\* before any event of a later session, and none of its events after one.
C2_SupersededOrder ==
    \A s \in Sessions : \A i \in 1..Len(delivered) :
        (inflight[s] /\ delivered[i].sid > s) =>
            /\ \E k \in 1..(i - 1) :
                  delivered[k].sid = s /\ delivered[k].kind \in {"done", "error"}
            /\ \A j \in (i + 1)..Len(delivered) : delivered[j].sid # s

\* C3: once stop() has set the flag, the running session begins no further
\* iteration of the token loop.
C3_StopEndsLoop ==
    [][\A s \in Sessions :
          (stopReq[s] # "none" /\ stop_generation_ /\ gpc[s] = "loop")
              => loop_iterations' <= loop_iterations]_vars

\* C4: stop() before the first token of a session: its consumer gets exactly
\* one terminal event and no token event.
C4_EarlyStopOneTerminal ==
    \A s \in Sessions :
        (stopReq[s] = "early" /\ SessionOver(s)) => (Terminals(s) = 1 /\ Tokens(s) = 0)

\* C5: every session that has ended delivered exactly one terminal event, and
\* it is the last event of the session.
C5_OneTerminalLast ==
    \A s \in Sessions :
        SessionOver(s) =>
            /\ Terminals(s) = 1
            /\ \A i \in Indices({"done", "error"}, s) :
                  \A j \in (i + 1)..Len(delivered) : delivered[j].sid # s

\* C6: when no generation call is running (the mutex is free), no execution
\* context is live.
C6_NoContextAfterCall == model_mutex_ = "free" => liveCtx = {}

\* C7: at most one execution context is live, and it is the one ctx_ holds: a
\* context is created only once the previous one has been freed.
C7_OneLiveContext ==
    /\ Cardinality(liveCtx) <= 1
    /\ liveCtx \subseteq {ctx_}

\* a context is live in the token loop of a streaming session while the main
\* thread waits for the mutex to generate
C7_Witness ==
    /\ liveCtx # {}
    /\ \E s \in Sessions : gpc[s] = "loop"
    /\ mpc = "generate"

\* C8: an empty tokenization ends generate with the tokenization error and
\* generate_stream with that error as its only event; no llama_decode was
\* called and the context of the call is not left alive.
C8_TokenizationFailure ==
    /\ genResult.text = "err_tok" => (genResult.decodes = 0 /\ liveCtx = {})
    /\ \A s \in Sessions :
          (Running(s) /\ gev.sid = s /\ gev.kind = "err_tok") =>
              /\ decodeCalls = 0
              /\ Tokens(s) + Terminals(s) = 0
              /\ \A c \in Sessions : \A i \in 1..Len(queue[c]) : queue[c][i].sid # s

\* C9: the worker never waits on a full queue, holding the mutex, while the
\* consumer thread waits for that mutex.
C9_NoMutexQueueDeadlock ==
    ~ /\ mpc \in {"initialize", "generate", "is_ready"}
      /\ model_mutex_ = "worker"
      /\ \E s \in Sessions : gpc[s] = "cb_blocked" /\ Len(queue[gchan]) >= QueueDepth

\* C10: when generateStream releases and replaces the delivery channel, the
\* generation worker of the session that channel belongs to has ended.
C10_ChannelReplacedAfterWorkerEnd ==
    [][(callback_tsfn_ # 0 /\ callback_tsfn_' # callback_tsfn_)
          => (IF callback_tsfn_ = 0 THEN TRUE ELSE gpc[callback_tsfn_] = "done")]_vars

\* C11: generate and generateStream while no model is loaded (before any
\* successful initialize, or after a failed one): generate returns the
\* model-not-loaded error and the stream worker hands it to the callback; no
\* execution context is created or freed and llama_decode is not called, up
\* to the end of the call.
C11_NotLoadedError ==
    [][/\ (mpc = "generate" /\ mpc' # "generate" /\ model_ # "loaded") =>
            /\ genResult' = [text |-> "err_notloaded", decodes |-> 0]
            /\ mpc' = "idle"
            /\ liveCtx' = {} /\ liveCtx = {} /\ ctx_' = 0
       /\ \A s \in Sessions :
            /\ (gpc[s] = "lock" /\ gpc'[s] # "lock" /\ model_ # "loaded") =>
                  /\ gev' = [sid |-> s, kind |-> "err_notloaded"]
                  /\ gpc'[s] = "cb_enqueue"
                  /\ liveCtx' = {} /\ liveCtx = {} /\ ctx_' = 0
                  /\ decodeCalls' = 0
            /\ (Running(s) /\ gev = [sid |-> s, kind |-> "err_notloaded"]) =>
                  /\ gpc'[s] \in {"cb_enqueue", "cb_blocked", "exit", "done"}
                  /\ liveCtx' = {} /\ ctx_' = 0
                  /\ decodeCalls' = 0
                  /\ model_' # "loaded"]_vars

\* after a failed initialize, generate has returned the error and a stream
\* worker has queued it and ended
C11_Witness ==
    /\ model_ = "unloaded"
    /\ genResult.text = "err_notloaded"
    /\ \E s \in Sessions : gpc[s] = "done" /\ queue[s] # <<>>

\* C12: is_ready() (model_ && model_->is_loaded()) is true exactly when the
\* most recent initialize call returned true: false before any initialize,
\* and false again once an initialize has failed, whatever came before.
C12_ReadyIffLastInitialize ==
    IsLoaded <=> (initResult.path # "none" /\ initResult.ret)

\* a session produced a token, so a model was loaded; the last initialize
\* failed and the engine is not ready
C12_Witness ==
    /\ ~IsLoaded
    /\ initResult.path = "missing"
    /\ \E s \in Sessions :
          \E i \in 1..Len(queue[s]) : queue[s][i] = [sid |-> s, kind |-> "token", seq |-> 0]

\* C13: an initialize whose model path cannot be loaded returns false (the
\* call ends normally) and leaves the engine not ready; the initialize that
\* follows a failed one, given a loadable path, returns true and makes
\* is_ready() true.
C13_InitializeFailureRecoverable ==
    [][(mpc = "initialize" /\ mpc' # "initialize") =>
          /\ mpc' = "idle"
          /\ initResult'.path = "missing" => (~initResult'.ret /\ ~IsLoaded')
          /\ (initResult.path = "missing" /\ initResult'.path = "valid") =>
                (initResult'.ret /\ IsLoaded')]_vars

\* an initialize has failed, the engine is not ready, and the next initialize
\* call has been entered
C13_Witness ==
    /\ initResult = [path |-> "missing", ret |-> FALSE]
    /\ ~IsLoaded
    /\ mpc = "initialize"

\* the session-scoped errors: context creation, tokenization, decode (of the
\* prompt or of a token) and logit read
SessionErrors == {"err_ctx", "err_tok", "err_prompt", "err_decode", "err_logits"}

\* C14: when a generate call returns, or a stream worker ends, with a
\* session-scoped error, the model is still loaded (is_ready() true), the mutex
\* is released and ctx_ is null or a live context, so the next generation call
\* can run.
C14_SessionErrorKeepsModel ==
    [][/\ (genResult' # genResult /\ genResult'.text \in SessionErrors) =>
            /\ IsLoaded' /\ model_' = model_
            /\ model_mutex_' = "free"
            /\ ctx_' = 0 \/ ctx_' \in liveCtx'
       /\ \A s \in Sessions :
            (gpc[s] = "exit" /\ gpc'[s] = "done" /\ gev.kind \in SessionErrors) =>
                /\ IsLoaded' /\ model_' = model_
                /\ model_mutex_' = "free"
                /\ ctx_' = 0 \/ ctx_' \in liveCtx']_vars

\* a stream worker is ending after a failed llama_decode, the model is loaded
\* and the next generate call waits for the mutex
C14_Witness ==
    /\ IsLoaded
    /\ \E s \in Sessions : gpc[s] = "exit" /\ gev = [sid |-> s, kind |-> "err_decode"]
    /\ mpc = "generate"

\* C15: initialize does not free and replace a loaded model handle while a
\* generation is in flight: when it does, every generation started before has
\* ended (and freed its context).
C15_InitializeAfterTeardown ==
    [][(mpc = "initialize" /\ mpc' = "idle" /\ model_ = "loaded") =>
          \A s \in Sessions : ~InFlight(s)]_vars

\* C16: once the destructors have released the model handle, the launcher and
\* every generation thread have ended (none makes a backend call or hands a
\* text to the callback afterwards), cancellation is signalled and no context
\* is live.
C16_JoinBeforeRelease ==
    mpc = "destroyed" =>
        /\ \A s \in Sessions : ~Running(s)
        /\ lpc \in {"none", "done"}
        /\ stop_generation_
        /\ model_mutex_ = "free"
        /\ liveCtx = {}

\* the object was destroyed after a session whose worker queued a text
C16_Witness ==
    /\ mpc = "destroyed"
    /\ \E s \in Sessions : gpc[s] = "done" /\ queue[s] # <<>>

\* the generation thread of s is between taking and releasing model_mutex_
HoldsMutex(s) ==
    gpc[s] \in {"ingest", "loop", "cb_check", "cb_enqueue", "cb_blocked", "decode", "exit"}

\* C17: the synchronous generate and a stream worker are never both between
\* context creation and return (prompt ingest, token loop): whichever runs
\* holds model_mutex_.
C17_GenerateSerialized ==
    /\ ~(mpc = "gen_run" /\ \E s \in Sessions : HoldsMutex(s))
    /\ mpc = "gen_run" => model_mutex_ = "main"
    /\ \A s \in Sessions : HoldsMutex(s) => model_mutex_ = "worker"

\* generate is in its token loop while the generation thread of a stream
\* session waits for the mutex
C17_Witness == mpc = "gen_run" /\ \E s \in Sessions : gpc[s] = "lock"

\* C18: a value a setter stored while a generation was in flight is not the
\* one a token step of that generation samples with (sample_next_token reads
\* config_ at every step): no session that was in flight when the setter
\* wrote is about to run a token step.
C18_SetterNotInCurrentGeneration ==
    \A s \in lastSet.inflight :
        ~(gpc[s] = "loop" /\ loop_iterations < max_tokens /\ config_ = lastSet.temp)

\* C19: a setter called while no model is loaded returns normally, leaves
\* is_ready() false and creates neither an LLMModel nor a context; with no
\* LLMModel at all (no initialize so far) it changes nothing.
C19_SetterWithoutModel ==
    [][(mpc = "set_temperature" /\ mpc' # "set_temperature" /\ model_ # "loaded") =>
          /\ mpc' = "idle"
          /\ model_' = model_
          /\ ~IsLoaded'
          /\ UNCHANGED <<ctx_, liveCtx, model_mutex_, stop_generation_>>
          /\ model_ = "null" => (config_ = 0 /\ config_' = 0)]_vars

\* a setter has been called and has returned, and there is still no LLMModel
C19_Witness ==
    /\ model_ = "null"
    /\ config_ = 0
    /\ lastSet.temp # 0
    /\ mpc = "idle"

\* C20: whenever the JS thread is free to call stop(), the call can run at
\* once, whoever holds model_mutex_, and it sets stop_generation_ and changes
\* nothing else of the engine, the threads or the channel.
C20_StopNeverWaits ==
    mpc = "idle" =>
        ENABLED (/\ StopGeneration(FALSE)
                 /\ stop_generation_'
                 /\ mpc' = "idle"
                 /\ UNCHANGED <<engineVars, launchVars, genVars, chanVars, cfgVars, processVars>>)

\* stop() was called while the worker of the current session holds the mutex
\* in its token loop
C20_Witness ==
    /\ mpc = "idle"
    /\ stop_generation_
    /\ model_mutex_ = "worker"
    /\ nsess = MaxSessions /\ lpc = "done" /\ gpc[nsess] = "loop"

\* C21: the cancellation flag is reset when a generation starts.  The step that
\* starts the generation thread of a session finds the flag set (by the stop()
\* calls made before) and leaves it false; while a session runs the flag rises
\* only by a call made after that: a stop() or generateStream call of the JS
\* thread, or the launcher of a later session.  So a stop() that returned
\* before the session was started makes the wrapper drop none of its texts.
C21_FlagResetAtStart ==
    [][/\ (lpc = "join" /\ lpc' = "done") =>
            (stop_generation_ /\ ~stop_generation_' /\ gpc'[nsess] = "lock")
       /\ (~stop_generation_ /\ stop_generation_') =>
            \/ mpc = "idle" /\ mpc' = "idle" /\ UNCHANGED <<launchVars, genVars, chanVars>>
            \/ mpc = "idle" /\ mpc' = "gs_join"
            \/ lpc = "stop" /\ lpc' = "join" /\ gpc[nsess] = "none"]_vars

\* the token of the second session has passed the flag test of the wrapper:
\* the flag, set by both generateStream calls and both launchers, is false
C21_Witness ==
    /\ ~stop_generation_
    /\ gpc[MaxSessions] = "cb_enqueue"
    /\ gev = [sid |-> MaxSessions, kind |-> "token"]

\* ---- the delivery channel with several tokens in flight ----

\* the sessions SpecStream starts after, and those it runs: the last two
Earlier == 1..(MaxSessions - 2)

\* The engine after a successful initialize.  Every earlier session ran to
\* its end under a stop() that made the wrapper drop all its texts, so nothing
\* was queued or delivered.
LoadedIdle ==
    /\ model_ = "loaded"
    /\ ctx_ = 0
    /\ liveCtx = {}
    /\ model_mutex_ = "free"
    /\ stop_generation_ = (Earlier # {})
    /\ mpc = "idle"
    /\ genResult = NoResult
    /\ lpc = IF Earlier = {} THEN "none" ELSE "done"
    /\ nsess = MaxSessions - 2
    /\ lmax = 0
    /\ generation_thread_ = MaxSessions - 2
    /\ gpc = [s \in Sessions |-> IF s \in Earlier THEN "done" ELSE "none"]
    /\ max_tokens = 0
    /\ tokens_generated = 0
    /\ loop_iterations = 0
    /\ decodeCalls = 0
    /\ gev = NoEvent
    /\ gnext = "return"
    /\ gchan = 0
    /\ callback_tsfn_ = MaxSessions - 2
    /\ queue = [c \in Sessions |-> <<>>]
    /\ delivered = <<>>
    /\ stopReq = [s \in Sessions |-> IF s \in Earlier THEN "early" ELSE "none"]
    /\ inflight = [s \in Sessions |-> FALSE]
    /\ config_ \in CoreTemps
    /\ initResult = [path |-> "valid", ret |-> TRUE]
    /\ lastSet = NoSet
    /\ backend = [BackendFresh EXCEPT !.initialized = TRUE, !.inits = 1]
    /\ instances = <<>>
    /\ helper = <<>>

InitStream == LoadedIdle /\ sampler = <<>> /\ ingest = <<>>

\* generateStream calls with room for several tokens, on a queue that holds
\* more than one call; the observers record.  The flag is set by the
\* generateStream calls and the launchers.
StreamTokens == MaxTokens + 2
StreamDepth == QueueDepth + 1

NextStream ==
    \/ GenerateStreamBegin(TRUE)
    \/ GenerateStreamFinish({0, StreamTokens})
    \/ Deliver(TRUE)
    \/ LaunchStop
    \/ LaunchSpawn
    \/ \E s \in Sessions : GenStart(s)
    \/ \E s \in Sessions : GenIngest(s)
    \/ \E s \in Sessions : GenIter(s)
    \/ \E s \in Sessions : GenCallback(s)
    \/ \E s \in Sessions : GenEnqueue(s, StreamDepth, TRUE)
    \/ \E s \in Sessions : GenBlockingCall(s, StreamDepth, TRUE)
    \/ \E s \in Sessions : GenDecode(s)
    \/ \E s \in Sessions : GenExit(s)

SpecStream == InitStream /\ [][NextStream]_vars

\* C22: the token events of a session reach its consumer in generation order:
\* of two tokens of session s that the callback of s was called with, the one
\* produced earlier by the loop was delivered earlier, whichever of
\* NonBlockingCall and BlockingCall queued each.
C22_TokensInOrder ==
    \A s \in Sessions : \A i, j \in Indices({"token"}, s) :
        (i < j /\ delivered[i].chan = s /\ delivered[j].chan = s)
            => delivered[i].seq < delivered[j].seq

\* the consumer of s has got the first two tokens of s, and the thread of s
\* has had to fall back to BlockingCall on the full queue of s
C22_Witness ==
    \E s \in Sessions :
        /\ gchan = s /\ Running(s)
        /\ \E i, j \in Indices({"token"}, s) :
              /\ i < j
              /\ delivered[i].chan = s /\ delivered[j].chan = s
              /\ delivered[i].seq = 1 /\ delivered[j].seq = 2

\* the calls queued or delivered so far that carry a token of session s
TokensOut(s) ==
    Tokens(s)
    + Cardinality({<<c, i>> \in Sessions \X (1..StreamDepth) :
                      IF i <= Len(queue[c])
                      THEN queue[c][i].sid = s /\ queue[c][i].kind = "token"
                      ELSE FALSE})

\* the thread of s is inside the callback
InCallback(s) == gpc[s] \in {"cb_check", "cb_enqueue", "cb_blocked"}

C24_EosEndsSession ==
    [][\A s \in Sessions :
          /\ (gpc[s] = "loop" /\ loop_iterations' # loop_iterations
                  /\ gev'.kind = "done") =>
                /\ tokens_generated' = tokens_generated
                /\ decodeCalls' = decodeCalls
                /\ gnext' = "free"
                /\ queue' = queue
          /\ (Running(s) /\ gev = [sid |-> s, kind |-> "done"]
                  /\ tokens_generated < loop_iterations) =>
                /\ gpc'[s] \in {"cb_check", "cb_enqueue", "cb_blocked", "exit", "done"}
                /\ gev' = gev \/ gpc'[s] = "done"
                /\ decodeCalls' = decodeCalls \/ gpc'[s] = "done"
                /\ TokensOut(s)' = TokensOut(s)]_vars

\* the second token sampled by a session was EOS: one token was delivered,
\* the [DONE] message has been handed out and the thread is about to end
C24_Witness ==
    \E s \in Sessions :
        /\ gpc[s] = "exit"
        /\ gev = [sid |-> s, kind |-> "done"]
        /\ tokens_generated = 1 /\ loop_iterations = 2
        /\ Tokens(s) = 1

\* ---- LLMModel::sample_next_token and the token loop that calls it ----

HistoryCap == 128               \* recent_tokens_.size() > 128

LogitVals == 0..MaxLogit
\* the logits vectors of a vocabulary of n tokens; entry i is the logit of
\* token id i - 1
LogitVectors(n) == IF n = 0 THEN {<<>>} ELSE [1..n -> LogitVals]
\* r: Draws below DrawSteps stand for r = d / DrawSteps; the last one for a
\* draw that the rounded cumulative sum never reaches
Draws == 0..DrawSteps

RECURSIVE Factorial(_)
Factorial(n) == IF n = 0 THEN 1 ELSE n * Factorial(n - 1)

\* logits are held in units of 1 / TempUnit, so that logit / temp is exact
TempUnit == Factorial(MaxTemp)

\* lines 373-378: if (temp > 0.0f) logit /= temp
ApplyTemperature(l, t) == IF t > 0 THEN l * (TempUnit \div t) ELSE l * TempUnit

\* lines 399-414: the index sets std::partial_sort can leave in the first k
\* places (it is free in the order of equal logits)
TopKSets(copy, k) ==
    {S \in SUBSET DOMAIN copy :
        /\ Cardinality(S) = k
        /\ \A i \in S : \A j \in DOMAIN copy \ S : copy[i] >= copy[j]}

\* lines 398-421: the indices whose logit is not set to -INFINITY
Kept(copy, k, S) == IF k > 0 /\ k < Len(copy) THEN S ELSE DOMAIN copy

RECURSIVE Pow2(_)
Pow2(n) == IF n = 0 THEN 1 ELSE 2 * Pow2(n - 1)

\* lines 424-437: softmax, up to the common factor 1 / sum and to the base of
\* the exponential: expf(-INFINITY) is 0, every other weight is positive and
\* grows with the logit
Probs(copy, K) == [i \in DOMAIN copy |-> IF i \in K THEN Pow2(copy[i]) ELSE 0]

RECURSIVE Cumsum(_, _)
Cumsum(probs, i) == IF i = 0 THEN 0 ELSE probs[i] + Cumsum(probs, i - 1)

\* lines 445-456: the first i with r <= cumsum
WalkHits(probs, d) ==
    {i \in DOMAIN probs : d * Cumsum(probs, Len(probs)) <= Cumsum(probs, i) * DrawSteps}

\* line 459: std::max_element over the filtered logits: the first greatest
ArgMax(copy, K) ==
    CHOOSE i \in K : \A j \in K : copy[j] < copy[i] \/ (copy[j] = copy[i] /\ i <= j)

\* what sample_next_token returns for an empty vector, line 369
EmptyLogitsToken == 0

\* LLMModel::sample_next_token(logits) with config_.temperature = t,
\* config_.top_k = k, the partial_sort outcome S and the draw d
SampleNextToken(lg, t, k, S, d) ==
    IF lg = <<>> THEN EmptyLogitsToken
    ELSE LET copy == [i \in DOMAIN lg |-> ApplyTemperature(lg[i], t)]
             K == Kept(copy, k, S)
             probs == Probs(copy, K)
             hits == WalkHits(probs, d)
         IN  IF d < DrawSteps
             THEN (CHOOSE i \in hits : \A j \in hits : i <= j) - 1
             ELSE ArgMax(copy, K) - 1

\* lines 450-453 and 460-463: push_back, and erase(begin()) above the capacity
PushRecent(h, tok) ==
    IF Len(h) + 1 > HistoryCap THEN Tail(Append(h, tok)) ELSE Append(h, tok)

\* recent_tokens_ after the call: the empty-vector return comes before any push
RecentAfter(h, lg, tok) == IF lg = <<>> THEN h ELSE PushRecent(h, tok)

\* llama_vocab_eos(vocab): the last token id of the vocabulary; an empty
\* vocabulary has none
Eos(n) == n - 1

\* generate_stream lines 83-88, generate_internal lines 240-245: a generation
\* call begins; recent_tokens_.clear() is commented out
BeginGeneration ==
    /\ ~sampler.generating
    /\ Len(sampler.returned) < MaxCalls
    /\ sampler' = [sampler EXCEPT !.generating = TRUE, !.in_gen = 0]
    /\ UNCHANGED <<engineVars, stop_generation_, mainVars, launchVars, genVars, chanVars,
                   histVars, cfgVars, backend, instances, ingest, helper>>

\* One iteration of the token loop, generate_stream lines 143-174 and
\* generate_internal lines 297-310: the logits of the vocabulary are copied,
\* sample_next_token is called, the loop breaks on EOS and otherwise counts
\* the token, hands out its piece and passes it to llama_decode.
LoopIteration ==
    /\ sampler.generating
    /\ Len(sampler.returned) < MaxCalls
    /\ \E lg \in LogitVectors(sampler.vocab_size), d \in Draws,
          S \in SUBSET (1..sampler.vocab_size) :
          LET copy == [i \in DOMAIN lg |-> ApplyTemperature(lg[i], sampler.temperature)]
              tok == SampleNextToken(lg, sampler.temperature, sampler.top_k, S, d)
          IN  /\ IF sampler.top_k > 0 /\ sampler.top_k < Len(lg)
                 THEN S \in TopKSets(copy, sampler.top_k)
                 ELSE S = {}
              /\ sampler' = [sampler EXCEPT
                                !.logits = lg,
                                !.next_token = tok,
                                !.recent_tokens_ = RecentAfter(@, lg, tok),
                                !.returned = Append(@, tok),
                                !.fed = (tok # Eos(sampler.vocab_size)),
                                !.generating = (tok # Eos(sampler.vocab_size)),
                                !.in_gen = @ + 1]
    /\ UNCHANGED <<engineVars, stop_generation_, mainVars, launchVars, genVars, chanVars,
                   histVars, cfgVars, backend, instances, ingest, helper>>

\* the loop ends at max_tokens, or on an error of the backend
EndGeneration ==
    /\ sampler.generating
    /\ sampler' = [sampler EXCEPT !.generating = FALSE]
    /\ UNCHANGED <<engineVars, stop_generation_, mainVars, launchVars, genVars, chanVars,
                   histVars, cfgVars, backend, instances, ingest, helper>>

\* a model is loaded, with any vocabulary size, temperature and top_k
InitSampler ==
    /\ LoadedIdle
    /\ ingest = <<>>
    /\ \E n \in {0, VocabSize}, t \in 0..MaxTemp, k \in 0..VocabSize :
          sampler = [SamplerIdle EXCEPT !.vocab_size = n, !.temperature = t, !.top_k = k]

NextSampler ==
    \/ BeginGeneration
    \/ LoopIteration
    \/ EndGeneration

SpecSampler == InitSampler /\ [][NextSampler]_vars

\* sample_next_token has been called
Sampled == sampler.returned # <<>>

\* C25: with 1 <= top_k < vocab_size the token returned has a logit among the
\* top_k highest of the vector passed: fewer than top_k logits are greater.
C25_TopKRespected ==
    (Sampled /\ sampler.logits # <<>>
        /\ sampler.top_k >= 1 /\ sampler.top_k < Len(sampler.logits)) =>
        Cardinality({j \in DOMAIN sampler.logits :
                        sampler.logits[j] > sampler.logits[sampler.next_token + 1]})
            < sampler.top_k

\* C26: with temperature = 0 the token returned is argmax(logits), whatever
\* the draw and top_k.
C26_GreedyAtZero ==
    (Sampled /\ sampler.logits # <<>> /\ sampler.temperature = 0) =>
        \A j \in DOMAIN sampler.logits :
            sampler.logits[j] <= sampler.logits[sampler.next_token + 1]

\* C27: a call with an empty logits vector yields no token id that the loop
\* counts, hands out or passes to llama_decode.
C27_EmptyLogitsFails == (Sampled /\ sampler.logits = <<>>) => ~sampler.fed

\* the last n entries of a sequence
LastN(seq, n) == SubSeq(seq, Len(seq) - n + 1, Len(seq))

\* C28: recent_tokens_ holds at most 128 entries, and they are the token ids
\* most recently returned by sample_next_token, in order.
C28_HistoryIsRecentReturns ==
    /\ Len(sampler.recent_tokens_) <= HistoryCap
    /\ sampler.recent_tokens_ = LastN(sampler.returned, Len(sampler.recent_tokens_))
    /\ Len(sampler.recent_tokens_) =
          IF Len(sampler.returned) < HistoryCap THEN Len(sampler.returned) ELSE HistoryCap

\* C29: when a generation call is about to sample its first token,
\* recent_tokens_ is empty.
C29_HistoryEmptyAtStart ==
    (sampler.generating /\ sampler.in_gen = 0) => sampler.recent_tokens_ = <<>>

\* ---- the process-wide backend and several engine instances ----

\* Each instance is driven by a thread of its own; InferenceEngine::initialize
\* holds the model_mutex_ of its instance only, so nothing orders the
\* statements of LLMModel::initialize of two instances.

\* LLMModel::initialize is entered, lines 41-43
InstInitialize(i) ==
    /\ instances.ipc[i] = "idle"
    /\ instances.icalls[i] < MaxInitCalls
    /\ instances' = [instances EXCEPT !.icalls[i] = @ + 1, !.ipc[i] = "test"]
    /\ UNCHANGED <<engineVars, stop_generation_, mainVars, launchVars, genVars, chanVars,
                   histVars, cfgVars, sampler, ingest, helper, backend>>

\* line 46: if (!backend_initialized)
InstTest(i) ==
    /\ instances.ipc[i] = "test"
    /\ instances' = [instances EXCEPT
                        !.ipc[i] = IF backend.initialized THEN "load" ELSE "init"]
    /\ UNCHANGED <<engineVars, stop_generation_, mainVars, launchVars, genVars, chanVars,
                   histVars, cfgVars, sampler, ingest, helper, backend>>

\* line 48: llama_backend_init()
InstBackendInit(i) ==
    /\ instances.ipc[i] = "init"
    /\ backend' = [backend EXCEPT !.inits = @ + 1]
    /\ instances' = [instances EXCEPT !.ipc[i] = "set"]
    /\ UNCHANGED <<engineVars, stop_generation_, mainVars, launchVars, genVars, chanVars,
                   histVars, cfgVars, sampler, ingest, helper, helper>>

\* line 49: backend_initialized = true
InstSetFlag(i) ==
    /\ instances.ipc[i] = "set"
    /\ backend' = [backend EXCEPT !.initialized = TRUE]
    /\ instances' = [instances EXCEPT !.ipc[i] = "load"]
    /\ UNCHANGED <<engineVars, stop_generation_, mainVars, launchVars, genVars, chanVars,
                   histVars, cfgVars, sampler, ingest, helper, helper>>

\* lines 53-67: llama_model_load_from_file, return
InstLoad(i) ==
    /\ instances.ipc[i] = "load"
    /\ instances' = [instances EXCEPT !.loads = @ + 1, !.ipc[i] = "idle"]
    /\ UNCHANGED <<engineVars, stop_generation_, mainVars, launchVars, genVars, chanVars,
                   histVars, cfgVars, sampler, ingest, helper, backend>>

\* ~LLMModel, lines 18-31: frees the context and the model, not the backend
InstDestroy(i) ==
    /\ instances.ipc[i] = "idle"
    /\ instances' = [instances EXCEPT !.ipc[i] = "destroyed"]
    /\ UNCHANGED <<engineVars, stop_generation_, mainVars, launchVars, genVars, chanVars,
                   histVars, cfgVars, sampler, ingest, helper, backend>>

\* LLMModel::cleanup_backend, lines 33-39, called at process shutdown
CleanupBackend ==
    /\ \A i \in Instances : instances.ipc[i] = "destroyed"
    /\ backend.initialized
    /\ backend' = [backend EXCEPT !.frees = @ + 1, !.initialized = FALSE]
    /\ UNCHANGED <<engineVars, stop_generation_, mainVars, launchVars, genVars, chanVars,
                   histVars, cfgVars, sampler, ingest, helper, instances>>

\* the instances have been constructed
InitBackend == Constructed /\ instances = InstancesIdle /\ helper = <<>>

NextBackend ==
    \/ \E i \in Instances : InstInitialize(i)
    \/ \E i \in Instances : InstTest(i)
    \/ \E i \in Instances : InstBackendInit(i)
    \/ \E i \in Instances : InstSetFlag(i)
    \/ \E i \in Instances : InstLoad(i)
    \/ \E i \in Instances : InstDestroy(i)
    \/ CleanupBackend

SpecBackend == InitBackend /\ [][NextBackend]_vars

\* C30: whatever the initialize calls on the instances and their
\* interleaving, llama_backend_init has run at most once, and has run by the
\* time a model is loaded; destroying an instance calls no llama_backend_free.
C30_BackendInitOnce ==
    [][/\ backend'.inits <= 1
       /\ instances'.loads > 0 => backend'.inits >= 1
       /\ (\E i \in Instances :
              instances.ipc[i] # "destroyed" /\ instances'.ipc[i] = "destroyed")
             => backend'.frees = backend.frees]_vars

\* ---- the fallback policy of the binding's callback ----

\* C31: a text goes to BlockingCall only from a NonBlockingCall that found the
\* queue of its ThreadSafeFunction full; a call is queued either by that
\* NonBlockingCall or by the BlockingCall that followed its rejection; and no
\* ThreadSafeFunction ever holds more queued calls than max_queue_size.
C31_NonBlockingFirst ==
    [][\A s \in Sessions :
         /\ (gpc[s] # "cb_blocked" /\ gpc'[s] = "cb_blocked") =>
               /\ gpc[s] = "cb_enqueue"
               /\ Len(queue[gchan']) = StreamDepth
               /\ queue' = queue
         /\ \A c \in Sessions :
               /\ Len(queue'[c]) <= StreamDepth
               /\ Len(queue'[c]) > Len(queue[c]) =>
                     \E t \in Sessions :
                        /\ gpc[t] \in {"cb_enqueue", "cb_blocked"}
                        /\ gpc'[t] = AfterCallback
                        /\ gpc[t] = "cb_blocked" => gchan = c]_vars

\* a BlockingCall waits on a full queue
C31_Witness ==
    \E s \in Sessions :
       /\ gpc[s] = "cb_blocked"
       /\ gchan = s
       /\ Len(queue[s]) = StreamDepth
       /\ gev = [sid |-> s, kind |-> "token"]

\* ---- failures in the token loop ----

\* the texts of a failed llama_get_logits and of a failed llama_decode of a
\* sampled token
LoopFailures == {"err_logits", "err_decode"}

\* session s has passed the text of such a failure to its callback
LoopFailed(s) == gev.sid = s /\ gev.kind \in LoopFailures

\* the error text is passed to the callback once, the token texts handed out
\* before it stay with the consumer, and the session goes on to llama_free
\* and return: no further iteration (no sampler call), no further llama_decode
C32_FailureEndsLoop ==
    \A s \in Sessions :
       /\ (~LoopFailed(s) /\ LoopFailed(s)') =>
             /\ gpc[s] \in {"loop", "decode"}
             /\ gpc'[s] = "cb_check"
             /\ gnext' = "free"
             /\ tokens_generated' = tokens_generated
             /\ queue' = queue
       /\ (LoopFailed(s) /\ gpc'[s] # "done") =>
             /\ gpc'[s] \in {"cb_check", "cb_enqueue", "cb_blocked", "exit"}
             /\ gev' = gev
             /\ decodeCalls' = decodeCalls
             /\ loop_iterations' = loop_iterations
             /\ tokens_generated' = tokens_generated
       /\ \E n \in 0..Len(delivered') : delivered = SubSeq(delivered', 1, n)

\* when the llama_decode of a sampled token fails, the last text the session
\* passed to its callback is a token text (that of the token being decoded)
C32_EmittedBeforeDecode ==
    \A s \in Sessions :
       (gpc[s] = "decode" /\ gev'.sid = s /\ gev'.kind = "err_decode") =>
          gev = [sid |-> s, kind |-> "token"]

\* C32: on a failed logit read or token decode the session passes a terminal
\* error text to its callback after the token texts already handed out, which
\* stay delivered, and calls neither the sampler nor llama_decode again; a
\* token sampled in the failing iteration was passed to the callback before
\* its llama_decode was attempted.
C32_LoopFailure == [][C32_FailureEndsLoop /\ C32_EmittedBeforeDecode]_vars

\* ---- one generation call of LLMModel, statement by statement ----

\* generate_stream lines 107-175 and generate_internal lines 264-311 run the
\* same statements: tokenize, BOS, the ingest loop, the token loop.  The call
\* below is followed through them; the tokens of the prompt are numbered
\* 1, 2, .. in the order tokenize returns them, the BOS token is 0.

BatchSizes == -1..MaxBatch        \* config_.batch_size is an int nothing validates
BosToken == 0
CallTokens == -1..(MaxTokens + 1) \* max_tokens is an int nothing validates
PromptTokens(n) == [k \in 1..n |-> k]

\* size_t arithmetic, scaled down: wide enough for every index of the prompt
SizeModulus == 4 * (MaxPrompt + 1)
ToSizeT(n) == (n + SizeModulus) % SizeModulus

\* llama_decode calls are counted modulo a number no call with batch_size >= 1
\* reaches
DecodeCap == MaxPrompt + MaxTokens + 3
CountDecode(n) == (n + 1) % DecodeCap

Min(a, b) == IF a <= b THEN a ELSE b

\* no generation call has been made with config_.batch_size = b
IngestIdle(b) ==
    [batch_size |-> b, input_tokens |-> <<>>, i |-> 0, fed |-> <<>>, decodes |-> 0,
     max_tokens |-> 0, iter |-> 0, tokens_generated |-> 0, eos |-> FALSE,
     eos_hit |-> FALSE, streamed |-> <<>>, output_tokens |-> <<>>, text |-> <<>>,
     pc |-> "idle", result |-> "none"]

\* lines 107-118: tokenize(prompt); an empty result ends the call; the BOS
\* token is inserted in front if the vocabulary asks for it
CallBegin ==
    /\ ingest.pc = "idle"
    /\ model_mutex_ = "free"
    /\ model_mutex_' = "worker"
    /\ \E n \in 0..MaxPrompt, add_bos \in BOOLEAN, m \in CallTokens :
          ingest' = IF n = 0
                    THEN [ingest EXCEPT !.pc = "returned", !.result = "err_tok"]
                    ELSE [ingest EXCEPT
                            !.input_tokens = IF add_bos THEN <<BosToken>> \o PromptTokens(n)
                                             ELSE PromptTokens(n),
                            !.max_tokens = m,
                            !.pc = "ingest"]
    /\ UNCHANGED <<model_, ctx_, liveCtx, stop_generation_, mainVars, launchVars, genVars, chanVars,
                   histVars, cfgVars, sampler, backend, instances, helper>>

\* the n_eval tokens llama_batch_get_one(input_tokens.data() + i, n_eval)
\* hands to llama_decode
Chunk(tokens, i, n_eval) == IF n_eval >= 1 THEN SubSeq(tokens, i + 1, i + n_eval) ELSE <<>>

\* lines 120-128: one iteration of
\* for (size_t i = 0; i < input_tokens.size(); i += config_.batch_size)
IngestChunk ==
    /\ ingest.pc = "ingest"
    /\ ingest.i < Len(ingest.input_tokens)
    /\ \E ret \in {0, 1} :
          LET n_eval == Min(Len(ingest.input_tokens) - ingest.i, ingest.batch_size)
              chunk == Chunk(ingest.input_tokens, ingest.i, n_eval)
          IN  ingest' = IF ret # 0
                        THEN [ingest EXCEPT !.fed = @ \o chunk,
                                            !.decodes = CountDecode(@),
                                            !.pc = "returned", !.result = "err_prompt"]
                        ELSE [ingest EXCEPT !.fed = @ \o chunk,
                                            !.decodes = CountDecode(@),
                                            !.i = ToSizeT(@ + ingest.batch_size)]
    /\ UNCHANGED <<engineVars, stop_generation_, mainVars, launchVars, genVars, chanVars,
                   histVars, cfgVars, sampler, backend, instances, helper>>

\* the test i < input_tokens.size() fails: the token loop starts
IngestEnd ==
    /\ ingest.pc = "ingest"
    /\ ingest.i >= Len(ingest.input_tokens)
    /\ ingest' = [ingest EXCEPT !.pc = "loop"]
    /\ UNCHANGED <<engineVars, stop_generation_, mainVars, launchVars, genVars, chanVars,
                   histVars, cfgVars, sampler, backend, instances, helper>>

\* A sampled token is written as the length in bytes of its text piece; a
\* text is written as the sequence of the pieces it is made of.
StreamBuf == 32                   \* char piece[32] of generate_stream
SyncBuf == 8                      \* char piece[8] of detokenize
PieceLens == {0, 1, SyncBuf, SyncBuf + 1, StreamBuf, StreamBuf + 1}

\* llama_token_to_piece(vocab, token, piece, sizeof(piece), 0, false): the
\* length written, or the negated length when the buffer is too small
TokenToPiece(len, buf) == IF len <= buf THEN len ELSE 0 - len

\* generate_stream lines 153-163: the text passed to the callback, if any
StreamPiece(token) == IF TokenToPiece(token, StreamBuf) > 0 THEN <<token>> ELSE <<>>

\* LLMModel::detokenize, lines 354-366
Detokenize(tokens) == SelectSeq(tokens, LAMBDA t : TokenToPiece(t, SyncBuf) > 0)

\* line 218: "eos_hit": (tokens_generated < max_tokens ? "true" : "false")
EosHit_AtMost(generated, max) == generated <= max

EosHit(generated, max) == generated < max

\* lines 134-163 and 176-222: the test of for (int i = 0; i < max_tokens; ++i),
\* the logit read and the sampler call of one iteration; after the loop the
\* [DONE] text with the metrics
TokenStep ==
    /\ ingest.pc = "loop"
    /\ IF ingest.iter >= ingest.max_tokens
       THEN ingest' = [ingest EXCEPT
                         !.eos_hit = EosHit(ingest.tokens_generated, ingest.max_tokens),
                         !.text = Detokenize(ingest.output_tokens),
                         !.pc = "returned", !.result = "done"]
       ELSE \E o \in {"err_logits", "eos", "token"}, token \in PieceLens :
               ingest' = CASE o = "err_logits" ->
                                [ingest EXCEPT !.iter = @ + 1, !.pc = "returned",
                                               !.result = "err_logits"]
                           [] o = "eos" ->
                                [ingest EXCEPT
                                   !.iter = @ + 1, !.eos = TRUE,
                                   !.eos_hit = EosHit(ingest.tokens_generated,
                                                      ingest.max_tokens),
                                   !.text = Detokenize(ingest.output_tokens),
                                   !.pc = "returned", !.result = "done"]
                           [] OTHER ->
                                [ingest EXCEPT !.iter = @ + 1,
                                               !.tokens_generated = @ + 1,
                                               !.streamed = @ \o StreamPiece(token),
                                               !.output_tokens = Append(@, token),
                                               !.pc = "decode"]
    /\ UNCHANGED <<engineVars, stop_generation_, mainVars, launchVars, genVars, chanVars,
                   histVars, cfgVars, sampler, backend, instances, helper>>

\* lines 164-174: llama_decode of the sampled token
TokenDecode ==
    /\ ingest.pc = "decode"
    /\ \E ret \in {0, 1} :
          ingest' = IF ret # 0
                    THEN [ingest EXCEPT !.decodes = CountDecode(@), !.pc = "returned",
                                        !.result = "err_decode"]
                    ELSE [ingest EXCEPT !.decodes = CountDecode(@), !.pc = "loop"]
    /\ UNCHANGED <<engineVars, stop_generation_, mainVars, launchVars, genVars, chanVars,
                   histVars, cfgVars, sampler, backend, instances, helper>>

\* the call returns: the lock_guard of the caller (generate_text) or of the
\* generation thread (generate_text_stream) releases model_mutex_
CallEnd ==
    /\ ingest.pc = "returned"
    /\ ingest' = [ingest EXCEPT !.pc = "ended"]
    /\ model_mutex_' = "free"
    /\ UNCHANGED <<model_, ctx_, liveCtx, stop_generation_, mainVars, launchVars, genVars,
                   chanVars, histVars, cfgVars, sampler, backend, instances, helper>>

\* a model is loaded with any batch_size
InitIngest ==
    /\ LoadedIdle
    /\ sampler = <<>>
    /\ \E b \in BatchSizes : ingest = IngestIdle(b)

NextIngest ==
    \/ CallBegin
    \/ IngestChunk
    \/ IngestEnd
    \/ TokenStep
    \/ TokenDecode
    \/ CallEnd

SpecIngest == InitIngest /\ [][NextIngest]_vars

\* the thread that runs the call is never suspended for ever
SpecIngestFair == SpecIngest /\ WF_vars(NextIngest)

\* a is the first Len(a) entries of b
IsPrefix(a, b) == Len(a) <= Len(b) /\ a = SubSeq(b, 1, Len(a))

\* C33: the tokens passed to llama_decode by the ingest loop are consecutive
\* chunks of input_tokens (BOS included), of at most batch_size tokens each;
\* when the loop ends without a failed decode every token has been passed
\* once, in order; after a failed decode no further chunk is passed.
C33_IngestInChunks ==
    [][/\ IsPrefix(ingest'.fed, ingest'.input_tokens)
       /\ IsPrefix(ingest.fed, ingest'.fed)
       /\ (ingest.pc = "ingest" /\ ingest.i < Len(ingest.input_tokens)) =>
             Len(ingest'.fed) - Len(ingest.fed) <= ingest.batch_size
       /\ ingest'.pc \in {"loop", "decode"} => ingest'.fed = ingest'.input_tokens
       /\ ingest.result = "err_prompt" => ingest'.decodes = ingest.decodes]_vars

\* the token loop made every iteration its test allows
RanAllIterations ==
    /\ ~ingest.eos
    /\ ingest.iter = (IF ingest.max_tokens > 0 THEN ingest.max_tokens ELSE 0)
    /\ ingest.tokens_generated = ingest.iter

\* C34: in the [DONE] metrics eos_hit is true iff the loop was left because
\* the sampler returned the end-of-sequence token, and false iff the loop made
\* all its max_tokens iterations (none for max_tokens <= 0).
C34_EosHitIsNaturalStop ==
    ingest.result = "done" =>
        /\ ingest.eos_hit <=> ingest.eos
        /\ ~ingest.eos_hit <=> RanAllIterations

\* [DONE] after the sampler returned EOS in the second iteration
C34_Witness ==
    /\ ingest.result = "done"
    /\ ingest.eos_hit
    /\ ingest.eos
    /\ ingest.tokens_generated = 1
    /\ ingest.iter = 2

\* ---- sessions that overlap ----

\* C35: every call of a JS callback carries a text produced by the session
\* of the generateStream call that callback was passed to.
C35_OwnCallbackOnly ==
    \A i \in DOMAIN delivered : delivered[i].sid = delivered[i].chan

\* C36: a stop() called after generateStream returned stays in force for the
\* session that call started: while the session has not ended the flag is
\* still set, and a session stopped before its first token delivers no token.
C36_StopNotLost ==
    /\ (nsess >= 1 /\ stopReq[nsess] # "none" /\ gpc[nsess] # "done") => stop_generation_
    /\ \A s \in Sessions : stopReq[s] = "early" => Tokens(s) = 0

\* ---- the text of the two generation paths ----

\* C37: when a call ends normally, the text generate returns for the tokens
\* sampled equals the concatenation of the token texts generate_stream passes
\* to its callback for the same tokens.
C37_SameText == ingest.result = "done" => ingest.text = ingest.streamed

\* ---- termination of a generation call ----

\* C38: a generation call, whatever configuration initialize stored, returns:
\* model_mutex_, taken for the call, is eventually released.
C38_CallTerminates == (model_mutex_ = "worker") ~> (model_mutex_ = "free")

\* ---- the server helper (server-helper.js) ----

\* One node process, one event loop: each handler below runs to completion,
\* and startServer yields once, at its await.  The LLM server children are
\* processes of their own.  Child c is the child spawned by request c.

Starts == 1..MaxStarts

\* a child: state is "none", "failed" (spawn could not start it; 'error' is
\* pending), "errored", "spawned", "listening" (it holds port 3001), "refused"
\* (listen failed with EADDRINUSE), "exited" ('close' is pending), "closed";
\* killed: stopServer sent it SIGTERM; out, err: a 'data' event is pending
NoChild == [state |-> "none", killed |-> FALSE, out |-> FALSE, err |-> FALSE]

\* lines 11-12
HelperIdle ==
    [serverProcess |-> 0, serverStatus |-> "stopped",
     child |-> [c \in Starts |-> NoChild],
     req |-> [r \in Starts |-> "none"]]

\* the child is a running process
Alive(c) == helper.child[c].state \in {"spawned", "listening", "refused"}

AliveChildren == {c \in Starts : Alive(c)}

\* lines 15-22: the fetch succeeds iff a server answers on port 3001
checkServerStatus == \E c \in Starts : helper.child[c].state = "listening"

HelperStep(h) ==
    /\ helper' = h
    /\ UNCHANGED <<engineVars, stop_generation_, mainVars, launchVars, genVars, chanVars,
                   histVars, cfgVars, sampler, backend, instances, ingest>>

\* lines 107-108 and 25-31: request r enters startServer; it is turned away if
\* the status is 'starting' or 'running', else it waits for the fetch
StartServerGuard(r) ==
    /\ helper.req[r] = "none"
    /\ HelperStep(IF helper.serverStatus \in {"starting", "running"}
                  THEN [helper EXCEPT !.req[r] = "rejected"]
                  ELSE [helper EXCEPT !.req[r] = "await"])

\* lines 31-85: the fetch has settled; a server that answers makes the status
\* 'running', else the status becomes 'starting' and a child is spawned
StartServerResume(r) ==
    /\ helper.req[r] = "await"
    /\ \E ok \in BOOLEAN :
          HelperStep(IF checkServerStatus
                     THEN [helper EXCEPT !.serverStatus = "running", !.req[r] = "already"]
                     ELSE [helper EXCEPT
                             !.serverStatus = "starting",
                             !.serverProcess = r,
                             !.child[r].state = IF ok THEN "spawned" ELSE "failed",
                             !.req[r] = "started"])

\* src/server/index.js in the child: listen on port 3001, which prints
\* 'Server running on port 3001' or fails with EADDRINUSE
ChildListen(c) ==
    /\ helper.child[c].state = "spawned"
    /\ HelperStep(IF checkServerStatus
                  THEN [helper EXCEPT !.child[c].state = "refused", !.child[c].err = TRUE]
                  ELSE [helper EXCEPT !.child[c].state = "listening", !.child[c].out = TRUE])

\* the child process ends: by itself or by the SIGTERM it was sent
ChildExit(c) ==
    /\ Alive(c)
    /\ HelperStep([helper EXCEPT !.child[c].state = "exited"])

\* lines 54-60
OnStdout(c) ==
    /\ helper.child[c].out
    /\ HelperStep([helper EXCEPT !.serverStatus = "running", !.child[c].out = FALSE])

\* lines 62-68
OnStderr(c) ==
    /\ helper.child[c].err
    /\ HelperStep([helper EXCEPT !.serverStatus = "running", !.child[c].err = FALSE])

\* lines 70-76: 'close' comes after the process ended and its streams closed
OnClose(c) ==
    /\ helper.child[c].state = "exited"
    /\ ~helper.child[c].out
    /\ ~helper.child[c].err
    /\ HelperStep([helper EXCEPT
                     !.serverStatus = IF @ = "starting" THEN "error" ELSE @,
                     !.serverProcess = 0,
                     !.child[c].state = "closed"])

\* lines 78-82
OnError(c) ==
    /\ helper.child[c].state = "failed"
    /\ HelperStep([helper EXCEPT
                     !.serverStatus = "error",
                     !.serverProcess = 0,
                     !.child[c].state = "errored"])

\* lines 87-96 and 112-115
stopServer ==
    /\ helper' = IF helper.serverProcess # 0
                 THEN [helper EXCEPT
                         !.child[helper.serverProcess].killed = TRUE,
                         !.serverStatus = "stopped",
                         !.serverProcess = 0]
                 ELSE helper
    /\ UNCHANGED <<engineVars, stop_generation_, mainVars, launchVars, genVars, chanVars,
                   histVars, cfgVars, sampler, backend, instances, ingest>>

InitHelper == Constructed /\ instances = <<>> /\ helper = HelperIdle

NextHelper ==
    \/ \E r \in Starts : StartServerGuard(r)
    \/ \E r \in Starts : StartServerResume(r)
    \/ \E c \in Starts : ChildListen(c)
    \/ \E c \in Starts : ChildExit(c)
    \/ \E c \in Starts : OnStdout(c)
    \/ \E c \in Starts : OnStderr(c)
    \/ \E c \in Starts : OnClose(c)
    \/ \E c \in Starts : OnError(c)
    \/ stopServer

SpecHelper == InitHelper /\ [][NextHelper]_vars

\* C39: the helper never has two LLM server children alive at the same time.
C39_OneChildAlive == Cardinality(AliveChildren) <= 1

\* the handler of 'close' or 'error' runs for a child that was stopped while
\* serverProcess refers to another child
StaleExit ==
    \E c \in Starts :
       /\ helper.child[c].killed
       /\ helper.child[c].state \in {"exited", "failed"}
       /\ helper'.child[c].state \in {"closed", "errored"}
       /\ helper.serverProcess \notin {0, c}

\* C40: a child that is alive and was not stopped is the one serverProcess
\* refers to, with status 'starting' or 'running'; the exit of a stopped child
\* leaves the reference to and the status of a child started after it alone.
C40_RefersToLiveChild ==
    [][/\ \A c \in Starts :
             (Alive(c) /\ ~helper.child[c].killed)' =>
                 /\ helper'.serverProcess = c
                 /\ helper'.serverStatus \in {"starting", "running"}
       /\ StaleExit =>
             /\ helper'.serverProcess = helper.serverProcess
             /\ helper'.serverStatus = helper.serverStatus]_vars

\* the second half of C40 by itself
C40_StaleExitHarmless ==
    [][StaleExit =>
          /\ helper'.serverProcess = helper.serverProcess
          /\ helper'.serverStatus = helper.serverStatus]_vars

====
